---- MODULE Spec2Model ----
(***************************************************************************)
(* A model of the agent registry (services/agent_registry.py) and of the   *)
(* chat request routing and streaming bridge (api/chat_router.py) of       *)
(* oneline-chat.                                                           *)
(*                                                                         *)
(* The program runs on one asyncio event loop: code between two awaits is  *)
(* atomic, so every action below is the code from one suspension point to  *)
(* the next.                                                               *)
(***************************************************************************)
EXTENDS Integers, Sequences, FiniteSets, TLC

\* The callers of AgentRegistry.initialize: 1 is the startup hook
\* (initialize_agents), 2 an endpoint handler that finds _initialized false.
Callers == {1, 2}

\* ------------------------------------------------------------- registry data

\* Python's None.
None == "none"

\* The agent ids of the model: the two ids discovery knows, and the id the
\* model_to_agent table of get_default_agent maps "gpt-3.5-turbo" to.
Ids == {"brd-agent", "prd-agent", "gpt-3.5-turbo"}

\* settings.ai.default_model: "gpt-3.5-turbo" for the openai provider, the
\* ollama model name (default "deepseek-r1:8b") otherwise.
DefaultModels == {"gpt-3.5-turbo", "deepseek-r1:8b"}

\* known_agents of _discover_agents_from_directory, in list order.
known_agents == <<"brd-agent", "prd-agent">>

\* AgentConfig.__init__: a new record is offline and was never checked.
\* base_url and api_key are modelled by their truthiness. last_health_check
\* is "never" for None; for a timestamp it is what the check that set it
\* found ("ok", "fail"), which is history the claims about probes read.
AgentConfig(type, provider, base_url, api_key) ==
    [type |-> type, provider |-> provider, base_url |-> base_url,
     api_key |-> api_key, status |-> "offline", last_health_check |-> "never"]

\* The record discovery builds for a candidate: specialized, custom provider,
\* base_url http://localhost:<port>.
DiscoveredConfig == AgentConfig("specialized", "custom", TRUE, FALSE)

\* The register_agent calls made from outside discovery: the discovered
\* agents registered again; under the id the default model maps to, an
\* in-process system agent of the openai provider, without and with its key,
\* an agent of AgentType.CUSTOM with a base_url, and a specialized agent
\* without base_url.
Registrations ==
    { <<"brd-agent", DiscoveredConfig>>,
      <<"prd-agent", DiscoveredConfig>>,
      <<"gpt-3.5-turbo", AgentConfig("system", "openai", FALSE, FALSE)>>,
      <<"gpt-3.5-turbo", AgentConfig("system", "openai", FALSE, TRUE)>>,
      <<"gpt-3.5-turbo", AgentConfig("custom", "custom", TRUE, FALSE)>>,
      <<"gpt-3.5-turbo", AgentConfig("specialized", "custom", FALSE, FALSE)>> }

\* What an awaited liveness probe can end with: HTTP 200, another status, a
\* transport error or timeout (both absorbed by _check_agent_health), or an
\* exception that escapes check_agent_status.
ProbeOutcomes == {"200", "503", "transport_error", "raise"}

\* _check_agent_health: True exactly on HTTP 200; any exception of the HTTP
\* call is caught and gives False.
_check_agent_health(outcome) == outcome = "200"

VARIABLES
    agents,         \* AgentRegistry.agents: id -> record (domain: registered ids)
    order,          \* insertion order of the agents dict
    initialized,    \* AgentRegistry._initialized
    healthTask,     \* AgentRegistry._health_check_task: index into tasks, 0 = None
    tasks,          \* every task made by asyncio.create_task(_health_check_loop())
    initCall,       \* per caller: where its initialize() call stands
    checkCall,      \* a direct check_agent_status call (the status endpoint)
    agentsDir,      \* whether the agents directory exists
    dirs,           \* the candidate directories that exist
    defaultModel,   \* settings.ai.default_model
    initNoop,       \* an initialize() call has returned at its guard (history)
    req,            \* the chat request being served (ChatCompletionRequest)
    pin,            \* ChatSession.active_agent_id of the request's chat, or None
    agent_history,  \* ChatSession.agent_history of that chat (<<>>: no session)
    pinFails,       \* the session lookup raises
    pc,             \* where the request handler stands (the yield it is at)
    agent,          \* the handler's local variable agent: an id or None
    frames,         \* the frames yielded to the client so far
    full_response,  \* the handler's full_response: the lines appended to it
    error_occurred, \* the handler's error_occurred
    lines,          \* the lines aiter_lines has delivered so far (history)
    chats,          \* the create_chat calls made, with their results
    queries,        \* the requests sent to an agent's /query endpoint
    http            \* the outcome of the endpoint served (non-streaming chat,
                    \* agent list)

regVars == <<agents, order, initialized, healthTask, tasks, initCall, checkCall,
             agentsDir, dirs, defaultModel, initNoop>>

chatVars == <<req, pin, agent_history, pinFails, pc, agent, frames, full_response,
              error_occurred, lines, chats, queries, http>>

vars == <<regVars, chatVars>>

\* ---------------------------------------------------------- registry helpers

\* AgentRegistry.get_agent, as the id found or None.
get_agent(ags, id) == IF id \in DOMAIN ags THEN id ELSE None

\* A list_agents that keeps the online records only, as
\* list_agents_by_capability does.
list_agents_OnlineOnly(ags, include_offline) ==
    IF include_offline THEN DOMAIN ags
    ELSE {id \in DOMAIN ags : ags[id].status = "online"}

\* AgentRegistry.list_agents: the ids of the records returned.
list_agents(ags, include_offline) ==
    IF include_offline THEN DOMAIN ags
    ELSE {id \in DOMAIN ags : ags[id].status # "offline"}

\* The model_to_agent table of get_default_agent.
model_to_agent(model) ==
    CASE model = "gpt-4" -> "gpt-4"
      [] model = "gpt-4o" -> "gpt-4o"
      [] model = "gpt-3.5-turbo" -> "gpt-3.5-turbo"
      [] model = "claude-3-5-sonnet-20241022" -> "claude-3-5-sonnet"
      [] model = "llama3.1:latest" -> "llama3"
      [] OTHER -> None

\* The first id of ord, in dict order, whose record is online; None if none.
RECURSIVE FirstOnline(_, _)
FirstOnline(ags, ord) ==
    IF ord = <<>> THEN None
    ELSE IF ags[Head(ord)].status = "online" THEN Head(ord)
    ELSE FirstOnline(ags, Tail(ord))

\* AgentRegistry.get_default_agent, as the id returned or None.
get_default_agent(ags, ord, model) ==
    LET agent_id == model_to_agent(model) IN
    IF agent_id # None /\ agent_id \in DOMAIN ags THEN agent_id
    ELSE FirstOnline(ags, ord)

\* Whether check_agent_status awaits the health endpoint for this record.
NeedsProbe(rec) == rec.type = "specialized" /\ rec.base_url

\* check_agent_status for an id whose check does not suspend: an id that is
\* not registered, a system agent, or an agent without a probe.
CheckSync(ags, id) ==
    IF id \notin DOMAIN ags THEN ags
    ELSE IF ags[id].type = "system" THEN
        [ags EXCEPT ![id].status =
                IF ags[id].provider \in {"openai", "anthropic"} /\ ~ags[id].api_key
                THEN "offline" ELSE "online",
            ![id].last_health_check =
                IF ags[id].provider \in {"openai", "anthropic"} /\ ~ags[id].api_key
                THEN "fail" ELSE "ok"]
    ELSE [ags EXCEPT ![id].last_health_check = "ok"]

\* A check_agent_status that drops an agent whose probe fails.
CheckProbed_DropOnFailure(ags, id, outcome) ==
    IF _check_agent_health(outcome)
    THEN [ags EXCEPT ![id].status = "online", ![id].last_health_check = "ok"]
    ELSE [x \in DOMAIN ags \ {id} |-> ags[x]]

\* check_agent_status after its awaited probe returned: the status is stored
\* on the record the call looked up before the await.
CheckProbed(ags, id, outcome) ==
    [ags EXCEPT ![id].status =
            IF _check_agent_health(outcome) THEN "online" ELSE "offline",
        ![id].last_health_check =
            IF _check_agent_health(outcome) THEN "ok" ELSE "fail"]

\* The for loop of _health_check_loop over the ids still to check, run up to
\* its first await that suspends. Returns the registry and the ids left (the
\* head is the one being probed).
RECURSIVE RunChecks(_, _)
RunChecks(ags, todo) ==
    IF todo = <<>> THEN [agents |-> ags, todo |-> <<>>]
    ELSE LET id == Head(todo) IN
         IF id \in DOMAIN ags /\ NeedsProbe(ags[id])
         THEN [agents |-> ags, todo |-> todo]
         ELSE RunChecks(CheckSync(ags, id), Tail(todo))

\* A sequence without the element x.
Without(s, x) == SelectSeq(s, LAMBDA y : y # x)

\* The elements of a sequence.
Range(s) == {s[i] : i \in DOMAIN s}

\* A task of _health_check_loop. pc: "sleep" (in asyncio.sleep), "probe" (in
\* the awaited probe of Head(todo)), "cancelled". detached: the record being
\* probed is no longer the one in the registry. raised and unprobed describe
\* the latest tick (history): whether a check raised in it, and the ids of its
\* snapshot that check_agent_status was not called on when it ended.
NewTask ==
    [pc |-> "sleep", todo |-> <<>>, detached |-> FALSE,
     raised |-> FALSE, unprobed |-> {}]

IdleCall == [pc |-> "idle", idx |-> 0, reg |-> {}]

\* The check_agent_status call of the status endpoint: idle, or awaiting the
\* probe of id. ret is what the latest call returned ("raised": it raised).
NoCheck == [pc |-> "idle", id |-> None, detached |-> FALSE, ret |-> None]

\* return agent.status of check_agent_status for an id whose check does not
\* suspend: OFFLINE for an id that is not registered (line 250), else the
\* status on the record after the check.
ReturnSync(ags, id) ==
    IF id \notin DOMAIN ags THEN "offline" ELSE CheckSync(ags, id)[id].status

\* return agent.status after the awaited probe: the status just stored on the
\* record the call holds.
ReturnProbed(ags, id, outcome) ==
    IF _check_agent_health(outcome) THEN "online" ELSE "offline"

\* The in-flight probes of id lose their record: register_agent and
\* unregister_agent put another object, or none, under the id.
DetachTasks(ts, id) ==
    [i \in DOMAIN ts |->
        IF ts[i].pc = "probe" /\ Head(ts[i].todo) = id
        THEN [ts[i] EXCEPT !.detached = TRUE] ELSE ts[i]]

DetachCheck(cc, id) ==
    IF cc.pc = "probe" /\ cc.id = id THEN [cc EXCEPT !.detached = TRUE] ELSE cc

\* No chat request is being served.
NoChat ==
    /\ req = [agent_id |-> None, chat_id |-> None, save_to_db |-> TRUE,
              stream |-> FALSE, messages |-> <<>>]
    /\ pin = None
    /\ agent_history = <<>>
    /\ pinFails = FALSE
    /\ pc = "idle"
    /\ agent = None
    /\ frames = <<>>
    /\ full_response = <<>>
    /\ error_occurred = FALSE
    /\ lines = <<>>
    /\ chats = <<>>
    /\ queries = <<>>
    /\ http = None

\* ------------------------------------------------------------------- Init

\* The filesystems discovery may find: no agents directory; the directory
\* with the first candidate's directory only; with both. dirs holds the
\* indices into known_agents of the candidate directories that exist.
Filesystems == { <<FALSE, {}>>, <<TRUE, {1}>>, <<TRUE, {1, 2}>> }

Init ==
    /\ agents = << >>
    /\ order = << >>
    /\ initialized = FALSE
    /\ healthTask = 0
    /\ tasks = << >>
    /\ initCall = [c \in Callers |-> IdleCall]
    /\ checkCall = NoCheck
    /\ \E fs \in Filesystems : agentsDir = fs[1] /\ dirs = fs[2]
    /\ defaultModel = "deepseek-r1:8b"
    /\ initNoop = FALSE
    /\ NoChat

\* --------------------------------------------------------- registry actions

\* AgentRegistry.register_agent: insert or replace by id. A replaced id keeps
\* its place in the dict order; a new id goes last.
register_agent(ags, id, cfg) ==
    [x \in DOMAIN ags \cup {id} |-> IF x = id THEN cfg ELSE ags[x]]

RegisterOrder(ags, ord, id) == IF id \in DOMAIN ags THEN ord ELSE Append(ord, id)

\* register_agent called from outside discovery.
RegisterAgent(id, cfg) ==
    /\ agents' = register_agent(agents, id, cfg)
    /\ order' = RegisterOrder(agents, order, id)
    /\ tasks' = DetachTasks(tasks, id)
    /\ checkCall' = DetachCheck(checkCall, id)
    /\ UNCHANGED <<initialized, healthTask, initCall, agentsDir, dirs,
                   defaultModel, initNoop>>
    /\ UNCHANGED chatVars

\* AgentRegistry.unregister_agent for a registered id (for another id it
\* returns False and changes nothing).
UnregisterAgent(id) ==
    /\ id \in DOMAIN agents
    /\ agents' = [x \in DOMAIN agents \ {id} |-> agents[x]]
    /\ order' = Without(order, id)
    /\ tasks' = DetachTasks(tasks, id)
    /\ checkCall' = DetachCheck(checkCall, id)
    /\ UNCHANGED <<initialized, healthTask, initCall, agentsDir, dirs,
                   defaultModel, initNoop>>
    /\ UNCHANGED chatVars

\* The state of a loop task after RunChecks returned r: probing the head of
\* the ids left, or back in the sleep with every id of the snapshot checked.
TaskAfter(r, raised) ==
    [pc |-> IF r.todo = <<>> THEN "sleep" ELSE "probe", todo |-> r.todo,
     detached |-> FALSE, raised |-> raised, unprobed |-> {}]

\* _health_check_loop: asyncio.sleep(30) returns, the ids are snapshot with
\* list(self.agents.keys()) and checked in order up to the first probe.
HealthTick(t) ==
    /\ t \in DOMAIN tasks
    /\ tasks[t].pc = "sleep"
    /\ LET r == RunChecks(agents, order) IN
        /\ agents' = r.agents
        /\ tasks' = [tasks EXCEPT ![t] = TaskAfter(r, FALSE)]
    /\ UNCHANGED <<order, initialized, healthTask, initCall, checkCall,
                   agentsDir, dirs, defaultModel, initNoop>>
    /\ UNCHANGED chatVars

\* _health_check_loop when check_agent_status raised: the except of the try
\* around the whole for logs it, and the while goes back to the sleep.
LoopAfterRaise(ags, task) ==
    [agents |-> ags,
     task |-> [pc |-> "sleep", todo |-> <<>>, detached |-> FALSE,
               raised |-> TRUE, unprobed |-> Range(Tail(task.todo))]]

\* A loop whose check stores its result under the id in the registry, as a
\* check writing self.agents[agent_id] would: an agent unregistered during the
\* probe is inserted again.
LoopAfterProbe_Reinserts(ags, task, outcome) ==
    LET id == Head(task.todo)
        ags1 == CheckProbed(register_agent(ags, id, DiscoveredConfig), id, outcome)
        r == RunChecks(ags1, Tail(task.todo))
    IN [agents |-> r.agents, task |-> TaskAfter(r, task.raised)]

\* _health_check_loop when the awaited check returned: the for goes on.
LoopAfterProbe(ags, task, outcome) ==
    LET id == Head(task.todo)
        ags1 == IF task.detached THEN ags ELSE CheckProbed(ags, id, outcome)
        r == RunChecks(ags1, Tail(task.todo))
    IN [agents |-> r.agents, task |-> TaskAfter(r, task.raised)]

\* The probe a loop task awaits ends.
HealthProbeDone(t, outcome) ==
    /\ t \in DOMAIN tasks
    /\ tasks[t].pc = "probe"
    /\ LET n == IF outcome = "raise" THEN LoopAfterRaise(agents, tasks[t])
                ELSE LoopAfterProbe(agents, tasks[t], outcome) IN
        /\ agents' = n.agents
        /\ tasks' = [tasks EXCEPT ![t] = n.task]
    /\ UNCHANGED <<order, initialized, healthTask, initCall, checkCall,
                   agentsDir, dirs, defaultModel, initNoop>>
    /\ UNCHANGED chatVars

\* A cleanup whose cancel the loop swallows in its except, as a loop that
\* catches the CancelledError would: the task is back in its sleep.
Cleanup_CaughtByLoop ==
    /\ tasks' = IF healthTask # 0 /\ tasks[healthTask].pc = "probe"
                THEN [tasks EXCEPT ![healthTask].pc = "sleep",
                                   ![healthTask].todo = <<>>,
                                   ![healthTask].detached = FALSE]
                ELSE tasks
    /\ UNCHANGED <<agents, order, initialized, healthTask, initCall, checkCall,
                   agentsDir, dirs, defaultModel, initNoop>>
    /\ UNCHANGED chatVars

\* AgentRegistry.cleanup: cancel the task _health_check_task names and await
\* it. The CancelledError is thrown into the task at its await (the sleep or
\* the probe); it is no Exception, so the loop's except does not catch it.
Cleanup ==
    /\ tasks' = IF healthTask # 0
                THEN [tasks EXCEPT ![healthTask].pc = "cancelled",
                                   ![healthTask].todo = <<>>,
                                   ![healthTask].detached = FALSE]
                ELSE tasks
    /\ UNCHANGED <<agents, order, initialized, healthTask, initCall, checkCall,
                   agentsDir, dirs, defaultModel, initNoop>>
    /\ UNCHANGED chatVars

\* check_agent_status called by the status endpoint, up to its await.
CheckStatusCall(id) ==
    /\ checkCall.pc = "idle"
    /\ IF id \in DOMAIN agents /\ NeedsProbe(agents[id])
       THEN /\ checkCall' = [pc |-> "probe", id |-> id, detached |-> FALSE,
                              ret |-> None]
            /\ UNCHANGED agents
       ELSE /\ agents' = CheckSync(agents, id)
            /\ checkCall' = [NoCheck EXCEPT !.ret = ReturnSync(agents, id)]
    /\ UNCHANGED <<order, initialized, healthTask, tasks, initCall,
                   agentsDir, dirs, defaultModel, initNoop>>
    /\ UNCHANGED chatVars

\* The probe of the status endpoint's check_agent_status ends.
CheckStatusDone(outcome) ==
    /\ checkCall.pc = "probe"
    /\ agents' = IF outcome = "raise" \/ checkCall.detached THEN agents
                 ELSE CheckProbed(agents, checkCall.id, outcome)
    /\ checkCall' = [NoCheck EXCEPT !.ret =
                        IF outcome = "raise" THEN "raised"
                        ELSE ReturnProbed(agents, checkCall.id, outcome)]
    /\ UNCHANGED <<order, initialized, healthTask, tasks, initCall,
                   agentsDir, dirs, defaultModel, initNoop>>
    /\ UNCHANGED chatVars

\* ------------------------------------------------------------- initialize

\* The first candidate after index i whose directory exists, 0 if none: the
\* for loop of discovery skips a candidate without a directory, no await.
NextCandidate(i) ==
    LET later == {j \in DOMAIN known_agents : j > i /\ j \in dirs} IN
    IF later = {} THEN 0 ELSE CHOOSE j \in later : \A k \in later : j <= k

\* An initialize() that does not look at _initialized.
AlreadyInitialized_NoGuard == FALSE

\* The guard of initialize(): if self._initialized: return.
AlreadyInitialized == initialized

\* The end of initialize(): the loop task is created, its handle stored in
\* _health_check_task, and _initialized set.
InitializeFinish(c) ==
    /\ tasks' = Append(tasks, NewTask)
    /\ healthTask' = Len(tasks) + 1
    /\ initialized' = TRUE
    /\ initCall' = [initCall EXCEPT ![c] = IdleCall]
    /\ UNCHANGED initNoop

\* initialize() up to its first await: the guard, then discovery up to the
\* probe of the first candidate whose directory exists.
InitializeCall(c) ==
    /\ initCall[c].pc = "idle"
    /\ IF AlreadyInitialized
       THEN /\ initNoop' = TRUE
            /\ UNCHANGED <<agents, order, initialized, healthTask, tasks,
                           initCall, checkCall>>
       ELSE IF ~agentsDir \/ NextCandidate(0) = 0
       THEN /\ InitializeFinish(c)
            /\ UNCHANGED <<agents, order, checkCall>>
       ELSE /\ initCall' = [initCall EXCEPT
                               ![c] = [pc |-> "probe", idx |-> NextCandidate(0),
                                       reg |-> {}]]
            /\ UNCHANGED initNoop
            /\ UNCHANGED <<agents, order, initialized, healthTask, tasks,
                           checkCall>>
    /\ UNCHANGED <<agentsDir, dirs, defaultModel>>
    /\ UNCHANGED chatVars

\* Discovery after the probe of candidate idx returned: register it if
\* healthy, then go on to the next candidate or finish. An exception out of
\* the probe leaves initialize() before the task is created.
InitializeProbeDone(c, outcome) ==
    /\ initCall[c].pc = "probe"
    /\ LET i == initCall[c].idx
           id == known_agents[i]
           healthy == _check_agent_health(outcome)
       IN
       IF outcome = "raise"
       THEN /\ initCall' = [initCall EXCEPT ![c] = IdleCall]
            /\ UNCHANGED initNoop
            /\ UNCHANGED <<agents, order, initialized, healthTask, tasks,
                           checkCall>>
       ELSE
         /\ agents' = IF healthy THEN register_agent(agents, id, DiscoveredConfig)
                      ELSE agents
         /\ order' = IF healthy THEN RegisterOrder(agents, order, id) ELSE order
         /\ checkCall' = IF healthy THEN DetachCheck(checkCall, id) ELSE checkCall
         /\ IF NextCandidate(i) = 0
            THEN /\ tasks' = Append(IF healthy THEN DetachTasks(tasks, id) ELSE tasks,
                                    NewTask)
                 /\ healthTask' = Len(tasks) + 1
                 /\ initialized' = TRUE
                 /\ initCall' = [initCall EXCEPT ![c] = IdleCall]
                 /\ UNCHANGED initNoop
            ELSE /\ tasks' = IF healthy THEN DetachTasks(tasks, id) ELSE tasks
                 /\ initCall' = [initCall EXCEPT
                        ![c] = [pc |-> "probe", idx |-> NextCandidate(i),
                                reg |-> IF healthy THEN initCall[c].reg \cup {id}
                                        ELSE initCall[c].reg]]
                 /\ UNCHANGED initNoop
                 /\ UNCHANGED <<healthTask, initialized>>
    /\ UNCHANGED <<agentsDir, dirs, defaultModel>>
    /\ UNCHANGED chatVars

Next ==
    \/ \E r \in Registrations : RegisterAgent(r[1], r[2])
    \/ \E id \in Ids : UnregisterAgent(id)
    \/ \E t \in DOMAIN tasks : HealthTick(t)
    \/ \E t \in DOMAIN tasks, o \in ProbeOutcomes : HealthProbeDone(t, o)
    \/ Cleanup
    \/ \E id \in Ids : CheckStatusCall(id)
    \/ \E o \in ProbeOutcomes : CheckStatusDone(o)
    \/ InitializeCall(1)
    \/ \E o \in ProbeOutcomes : InitializeProbeDone(1, o)

Spec == Init /\ [][Next]_vars

\* ---------------------------------------------------------- registry claims

\* Some registered agent is online.
SomeOnline == \E id \in DOMAIN agents : agents[id].status = "online"

\* C5: for every configured default model, get_default_agent returns
\* not-found when no registered agent is online, and an online agent when at
\* least one is online.
C5_DefaultIsOnlineOrNone ==
    \A m \in DefaultModels :
        LET d == get_default_agent(agents, order, m) IN
        IF SomeOnline
        THEN d \in DOMAIN agents /\ agents[d].status = "online"
        ELSE d = None

\* A step of a health check: a loop tick, a direct check_agent_status call,
\* or the end of the probe either awaits.
ProbeStep ==
    \/ \E t \in DOMAIN tasks : HealthTick(t)
    \/ \E t \in DOMAIN tasks, o \in ProbeOutcomes : HealthProbeDone(t, o)
    \/ \E id \in Ids : CheckStatusCall(id)
    \/ \E o \in ProbeOutcomes : CheckStatusDone(o)

\* A step that calls register_agent or unregister_agent.
RegistrationStep ==
    \/ \E r \in Registrations : RegisterAgent(r[1], r[2])
    \/ \E id \in Ids : UnregisterAgent(id)
    \/ \E c \in Callers, o \in ProbeOutcomes : InitializeProbeDone(c, o)

\* C6: the set of registered ids changes only through register_agent and
\* unregister_agent, a health check step never changes it, and an agent whose
\* latest probe failed is still listed by list_agents(include_offline=True)
\* with status offline.
C6_ProbeFailureKeepsAgent ==
    /\ [](\A id \in DOMAIN agents :
            agents[id].last_health_check = "fail" =>
                /\ id \in list_agents(agents, TRUE)
                /\ agents[id].status = "offline")
    /\ [][DOMAIN agents' # DOMAIN agents => (RegistrationStep /\ ~ProbeStep)]_vars

\* C6 witness: a probed agent whose probe failed in a tick of the loop is
\* registered and offline, the loop back in its sleep.
C6_Witness ==
    \E id \in DOMAIN agents :
        /\ NeedsProbe(agents[id])
        /\ agents[id].last_health_check = "fail"
        /\ agents[id].status = "offline"
        /\ \E t \in DOMAIN tasks : tasks[t].pc = "sleep" /\ ~tasks[t].raised

\* C7: an initialize() call made when a first call has completed changes
\* neither the registered agents nor the tasks: no second loop task is made.
C7_SecondInitializeNoop ==
    [][\A c \in Callers :
         (initialized /\ InitializeCall(c)) =>
            /\ agents' = agents
            /\ order' = order
            /\ tasks' = tasks
            /\ healthTask' = healthTask
            /\ initialized']_vars

\* C7 witness: a second initialize() has returned at its guard; one loop task
\* exists and a discovered agent is registered once.
C7_Witness ==
    /\ initNoop
    /\ initialized
    /\ Len(tasks) = 1
    /\ "brd-agent" \in DOMAIN agents
    /\ Cardinality(Range(order)) = Len(order)

\* C8: in a tick in which a check raised, check_agent_status was still called
\* on every other id of the tick's snapshot.
C8_RaiseKeepsProbing ==
    \A t \in DOMAIN tasks : tasks[t].raised => tasks[t].unprobed = {}

\* C10: when initialize() returns, every agent its discovery registered is
\* online.
C10_DiscoveredOnline ==
    [][\A c \in Callers, o \in ProbeOutcomes :
         (InitializeProbeDone(c, o) /\ Len(tasks') > Len(tasks)) =>
            \A id \in initCall[c].reg \cup
                      (IF _check_agent_health(o)
                       THEN {known_agents[initCall[c].idx]} ELSE {}) :
                id \in DOMAIN agents' => agents'[id].status = "online"]_vars

\* ------------------------------------------------------ the loop, with time

\* The registry when initialize() has returned with both candidates
\* discovered: two offline records, one loop task in its first sleep.
InitLoop ==
    /\ agents = [id \in {"brd-agent", "prd-agent"} |-> DiscoveredConfig]
    /\ order = known_agents
    /\ initialized = TRUE
    /\ healthTask = 1
    /\ tasks = <<NewTask>>
    /\ initCall = [c \in Callers |-> IdleCall]
    /\ checkCall = NoCheck
    /\ agentsDir = TRUE
    /\ dirs = {1, 2}
    /\ defaultModel = "deepseek-r1:8b"
    /\ initNoop = FALSE
    /\ NoChat

\* The loop task, unregistration and cleanup.
NextLoop ==
    \/ HealthTick(1)
    \/ \E o \in ProbeOutcomes : HealthProbeDone(1, o)
    \/ \E id \in Ids : UnregisterAgent(id)
    \/ Cleanup

\* asyncio.sleep(30) returns after 30 s and the probe's HTTP call ends within
\* its 5 s timeout: a task that is not cancelled takes its next step.
FairLoop ==
    /\ InitLoop
    /\ [][NextLoop]_vars
    /\ WF_vars(HealthTick(1))
    /\ WF_vars(\E o \in ProbeOutcomes : HealthProbeDone(1, o))

\* check_agent_status(id) is awaiting the probe of id in the loop task.
Probing(id) == tasks[1].pc = "probe" /\ Head(tasks[1].todo) = id

\* C9: the loop task ends only by cleanup's cancel, and as long as it is not
\* cancelled every probed agent that stays registered is probed again and
\* again.
C9_LoopKeepsProbing ==
    /\ [][tasks'[1].pc = "cancelled" /\ tasks[1].pc # "cancelled" => Cleanup]_vars
    /\ \A id \in {"brd-agent", "prd-agent"} :
          ([](tasks[1].pc # "cancelled") /\ [](id \in DOMAIN agents /\ NeedsProbe(agents[id])))
              => []<>Probing(id)

\* --------------------------------------------------------- chat: the data

\* The most lines one upstream response delivers.
MaxLines == 3

\* The lines aiter_lines may deliver: an empty line, two different raw text
\* lines, a line already in SSE shape, and the agent's own end marker.
UpstreamLines == {"", "a", "b", "data: {tok}", "data: [DONE]"}

\* line.startswith('data: ')
startswith_data(line) == line \in {"data: {tok}", "data: [DONE]"}

\* The frames, as the text before the closing "\n\n". A forwarded line is
\* the line itself, so a forwarded "data: [DONE]" is the same text as the
\* terminal frame; the JSON frames are kept apart by their fields.
VerbatimFrame(line) == <<line>>

ChunkFrame(line) == <<"data: {chunk}", line>>

ErrorFrame(type, code) == <<"data: {error}", type, code>>

DoneFrame == <<"data: [DONE]">>

\* The chat id of the model.
ChatId == "c1"

\* The message contents of the model, one per place in the list.
Contents == <<"m1", "m2", "m3">>

\* A message of the request: its role, and the content of its place.
Msg(role, i) == [role |-> role, content |-> Contents[i]]

\* [msg for msg in request.messages if msg.role == "user"]
user_messages(messages) == SelectSeq(messages, LAMBDA m : m.role = "user")

\* The session lookup of the router: the agent the chat's pin names, if the
\* request has a chat_id, the lookup does not raise (except: pass), the row
\* has an active_agent_id and get_agent finds it.
PinnedAgent(ags, r, pinv, fails) ==
    IF r.chat_id = None \/ fails \/ pinv = None THEN None
    ELSE get_agent(ags, pinv)

\* A router that reports "agent not found" when no agent is available.
ResolveStreaming_OneErrorKind(ags, ord, model, r, pinv, fails) ==
    LET named == IF r.agent_id # None THEN get_agent(ags, r.agent_id) ELSE None
        p == PinnedAgent(ags, r, pinv, fails)
        a == IF r.agent_id # None THEN named
             ELSE IF p # None THEN p ELSE get_default_agent(ags, ord, model)
    IN IF a = None THEN [agent |-> None, error |-> "agent_not_found"]
       ELSE [agent |-> a, error |-> None]

\* A router that looks at the pin before the agent the request names.
ResolveStreaming_PinFirst(ags, ord, model, r, pinv, fails) ==
    LET p == PinnedAgent(ags, r, pinv, fails) IN
    IF p # None THEN [agent |-> p, error |-> None]
    ELSE IF r.agent_id # None
    THEN IF get_agent(ags, r.agent_id) = None
         THEN [agent |-> None, error |-> "agent_not_found"]
         ELSE [agent |-> r.agent_id, error |-> None]
    ELSE LET a == get_default_agent(ags, ord, model)
         IN IF a = None THEN [agent |-> None, error |-> "no_agents"]
            ELSE [agent |-> a, error |-> None]

\* A router that falls back to the default agent for an unknown agent_id.
ResolveStreaming_Fallback(ags, ord, model, r, pinv, fails) ==
    LET named == IF r.agent_id # None THEN get_agent(ags, r.agent_id) ELSE None
        p == PinnedAgent(ags, r, pinv, fails)
        a == IF named # None THEN named
             ELSE IF p # None THEN p ELSE get_default_agent(ags, ord, model)
    IN IF a = None THEN [agent |-> None, error |-> "no_agents"]
       ELSE [agent |-> a, error |-> None]

\* "Determine which agent to use" of generate_streaming_response: the agent
\* resolved, or the code of the error chunk.
ResolveStreaming(ags, ord, model, r, pinv, fails) ==
    IF r.agent_id # None
    THEN IF get_agent(ags, r.agent_id) = None
         THEN [agent |-> None, error |-> "agent_not_found"]
         ELSE [agent |-> r.agent_id, error |-> None]
    ELSE LET p == PinnedAgent(ags, r, pinv, fails)
             a == IF p # None THEN p ELSE get_default_agent(ags, ord, model)
         IN IF a = None THEN [agent |-> None, error |-> "no_agents"]
            ELSE [agent |-> a, error |-> None]

\* "Determine which agent to use" of the non-streaming branch of
\* create_chat_completion: the agent resolved, or the HTTPException raised.
ResolveNonStreaming(ags, ord, model, r, pinv, fails) ==
    IF r.agent_id # None
    THEN IF get_agent(ags, r.agent_id) = None
         THEN [agent |-> None, error |-> "404: agent not found"]
         ELSE [agent |-> r.agent_id, error |-> None]
    ELSE LET p == PinnedAgent(ags, r, pinv, fails)
             a == IF p # None THEN p ELSE get_default_agent(ags, ord, model)
         IN IF a = None THEN [agent |-> None, error |-> "503: no agents available"]
            ELSE [agent |-> a, error |-> None]

\* The except of the non-streaming branch, except Exception as e: every
\* exception raised in the try, the HTTPExceptions of the branch included, is
\* raised again as HTTP 500 with the original in the detail text.
NonStreamingError(error) == [status |-> 500, detail |-> error]

\* ------------------------------------------------------ chat: streaming

\* The frame is yielded: the generator is suspended at that yield.
Yield(frame, at) ==
    /\ frames' = Append(frames, frame)
    /\ pc' = at

\* The finally of generate_streaming_response: yield "data: [DONE]\n\n".
Finally == Yield(DoneFrame, "y300")

\* generate_streaming_response up to its first yield or await: the agent is
\* resolved, the endpoint and the user message checked, the payload built and
\* the POST to {base_url}/query sent.
StreamStart ==
    /\ pc = "start"
    /\ req.stream
    /\ LET res == ResolveStreaming(agents, order, defaultModel, req, pin, pinFails) IN
       /\ agent' = res.agent
       /\ IF res.error = "agent_not_found"
          THEN /\ Yield(ErrorFrame("agent_error", "agent_not_found"), "y122")
               /\ UNCHANGED queries
          ELSE IF res.error # None
          THEN /\ Yield(ErrorFrame("agent_error", res.error), "y149")
               /\ UNCHANGED queries
          ELSE IF ~agents[res.agent].base_url
          THEN /\ Yield(ErrorFrame("agent_error", "no_api_endpoint"), "y166")
               /\ UNCHANGED queries
          ELSE IF user_messages(req.messages) = <<>>
          THEN /\ Yield(ErrorFrame("request_error", "no_user_message"), "y180")
               /\ UNCHANGED queries
          ELSE /\ queries' = Append(queries,
                     [agent |-> res.agent, stream |-> TRUE,
                      query |-> user_messages(req.messages)[Len(user_messages(req.messages))].content,
                      history |-> SubSeq(req.messages, 1, Len(req.messages) - 1)])
               /\ pc' = "connect"
               /\ UNCHANGED frames
    /\ UNCHANGED <<req, pin, agent_history, pinFails, full_response, error_occurred, lines,
                   chats, http>>
    /\ UNCHANGED regVars

\* After the error chunk of a failed resolution (lines 122, 149): yield the
\* marker.
ResumeEarlyError ==
    /\ pc \in {"y122", "y149"}
    /\ Yield(DoneFrame, IF pc = "y122" THEN "y123" ELSE "y150")
    /\ UNCHANGED <<req, pin, agent_history, pinFails, agent, full_response, error_occurred,
                   lines, chats, queries, http>>
    /\ UNCHANGED regVars

\* After that marker: return. The return is before the try, so no finally
\* runs.
ResumeEarlyDone ==
    /\ pc \in {"y123", "y150"}
    /\ pc' = "end"
    /\ UNCHANGED <<req, pin, agent_history, pinFails, agent, frames, full_response,
                   error_occurred, lines, chats, queries, http>>
    /\ UNCHANGED regVars

\* After the error chunk of a missing endpoint or user message (lines 166,
\* 180): yield the marker.
ResumeTryError ==
    /\ pc \in {"y166", "y180"}
    /\ Yield(DoneFrame, IF pc = "y166" THEN "y167" ELSE "y181")
    /\ UNCHANGED <<req, pin, agent_history, pinFails, agent, full_response, error_occurred,
                   lines, chats, queries, http>>
    /\ UNCHANGED regVars

\* After that marker: return. The return is inside the try, so the finally
\* runs.
ResumeTryDone ==
    /\ pc \in {"y167", "y181"}
    /\ Finally
    /\ UNCHANGED <<req, pin, agent_history, pinFails, agent, full_response, error_occurred,
                   lines, chats, queries, http>>
    /\ UNCHANGED regVars

\* The except clauses around the upstream call: an httpx.HTTPError gives an
\* agent_api_error chunk, any other Exception an internal_error chunk.
StreamFailure(outcome) ==
    IF outcome = "http_error"
    THEN Yield(ErrorFrame("agent_api_error", "http_error"), "y242")
    ELSE Yield(ErrorFrame("internal_error", "unexpected_error"), "y252")

\* The response to the POST arrives: raise_for_status passes and the lines
\* are read, or the call or raise_for_status raises.
Connect(outcome) ==
    /\ pc = "connect"
    /\ IF outcome = "ok"
       THEN pc' = "read" /\ UNCHANGED frames
       ELSE StreamFailure(outcome)
    /\ UNCHANGED <<req, pin, agent_history, pinFails, agent, full_response, error_occurred,
                   lines, chats, queries, http>>
    /\ UNCHANGED regVars

\* A reader that forwards nothing for a line already in SSE shape.
ReadLine_DropsVerbatim(line) ==
    /\ pc = "read"
    /\ Len(lines) < MaxLines
    /\ lines' = Append(lines, line)
    /\ IF line = "" \/ startswith_data(line) THEN UNCHANGED <<pc, frames>>
       ELSE Yield(ChunkFrame(line), "y232")
    /\ UNCHANGED <<req, pin, agent_history, pinFails, agent, full_response, error_occurred,
                   chats, queries, http>>
    /\ UNCHANGED regVars

\* aiter_lines delivers a line: an empty line is skipped, a line in SSE shape
\* forwarded, any other line wrapped into a chunk.
ReadLine(line) ==
    /\ pc = "read"
    /\ Len(lines) < MaxLines
    /\ lines' = Append(lines, line)
    /\ IF line = "" THEN UNCHANGED <<pc, frames>>
       ELSE IF startswith_data(line) THEN Yield(VerbatimFrame(line), "y218")
       ELSE Yield(ChunkFrame(line), "y232")
    /\ UNCHANGED <<req, pin, agent_history, pinFails, agent, full_response, error_occurred,
                   chats, queries, http>>
    /\ UNCHANGED regVars

\* A reader that puts each wrapped line in front of the buffer.
ResumeLine_Prepends ==
    /\ pc \in {"y218", "y232"}
    /\ full_response' = IF pc = "y232"
                        THEN <<lines[Len(lines)]>> \o full_response
                        ELSE full_response
    /\ pc' = "read"
    /\ UNCHANGED <<req, pin, agent_history, pinFails, agent, frames, error_occurred, lines,
                   chats, queries, http>>
    /\ UNCHANGED regVars

\* After the yield of a line: full_response += line for a wrapped line, then
\* the next line is awaited.
ResumeLine ==
    /\ pc \in {"y218", "y232"}
    /\ full_response' = IF pc = "y232"
                        THEN Append(full_response, lines[Len(lines)])
                        ELSE full_response
    /\ pc' = "read"
    /\ UNCHANGED <<req, pin, agent_history, pinFails, agent, frames, error_occurred, lines,
                   chats, queries, http>>
    /\ UNCHANGED regVars

\* A save without the condition on the chat id.
ShouldSave_NoChatId(r, err) == r.save_to_db /\ ~err

\* A save that does not look at error_occurred.
ShouldSave_IgnoringErrors(r, err) == r.save_to_db /\ r.chat_id # None

\* if request.save_to_db and request.chat_id and not error_occurred
ShouldSave(r, err) == r.save_to_db /\ r.chat_id # None /\ ~err

\* A save whose failure is swallowed: no database_error chunk.
SaveThenFinish_Silent(err, db) ==
    IF ShouldSave(req, err)
    THEN /\ chats' = Append(chats, [chat_id |-> req.chat_id,
                                    response |-> full_response,
                                    streaming |-> TRUE,
                                    result |-> db])
         /\ Finally
    ELSE /\ Finally
         /\ UNCHANGED chats

\* "Save to database" and what follows it: create_chat is called if asked
\* for, chats being the log of its calls with their results; if it raises,
\* the database_error chunk is yielded; else the finally yields the marker.
SaveThenFinish(err, db) ==
    IF ShouldSave(req, err)
    THEN /\ chats' = Append(chats, [chat_id |-> req.chat_id,
                                    response |-> full_response,
                                    streaming |-> TRUE,
                                    result |-> db])
         /\ IF db = "ok"
            THEN Finally
            ELSE Yield(ErrorFrame("database_error", "db_error"), "y284")
    ELSE /\ Finally
         /\ UNCHANGED chats

\* The upstream stream ends while a line is awaited: naturally, or with an
\* httpx.HTTPError, or with another exception.
ReadEnd(outcome, db) ==
    /\ pc = "read"
    /\ IF outcome = "end"
       THEN SaveThenFinish(error_occurred, db)
       ELSE StreamFailure(outcome) /\ UNCHANGED chats
    /\ UNCHANGED <<req, pin, agent_history, pinFails, agent, full_response, error_occurred,
                   lines, queries, http>>
    /\ UNCHANGED regVars

\* After the error chunk of a failed upstream call: error_occurred = True,
\* then the save and the finally.
ResumeStreamError(db) ==
    /\ pc \in {"y242", "y252"}
    /\ error_occurred' = TRUE
    /\ SaveThenFinish(TRUE, db)
    /\ UNCHANGED <<req, pin, agent_history, pinFails, agent, full_response, lines, queries,
                   http>>
    /\ UNCHANGED regVars

\* After the database_error chunk: the finally.
ResumeDbError ==
    /\ pc = "y284"
    /\ Finally
    /\ UNCHANGED <<req, pin, agent_history, pinFails, agent, full_response, error_occurred,
                   lines, chats, queries, http>>
    /\ UNCHANGED regVars

\* After the marker of the finally: the generator ends.
ResumeFinal ==
    /\ pc = "y300"
    /\ pc' = "end"
    /\ UNCHANGED <<req, pin, agent_history, pinFails, agent, frames, full_response,
                   error_occurred, lines, chats, queries, http>>
    /\ UNCHANGED regVars

\* -------------------------------------------------- chat: non-streaming

\* The non-streaming branch up to its await: the agent is resolved, the
\* endpoint checked, the payload built and the POST to /query sent. The
\* HTTPExceptions raised on the way are caught by the branch's own except.
NonStreamStart ==
    /\ pc = "start"
    /\ ~req.stream
    /\ LET res == ResolveNonStreaming(agents, order, defaultModel, req, pin, pinFails) IN
       /\ agent' = res.agent
       /\ IF res.error # None
          THEN /\ http' = NonStreamingError(res.error)
               /\ pc' = "end"
               /\ UNCHANGED queries
          ELSE IF ~agents[res.agent].base_url
          THEN /\ http' = NonStreamingError("503: no base_url")
               /\ pc' = "end"
               /\ UNCHANGED queries
          ELSE /\ queries' = Append(queries,
                     [agent |-> res.agent, stream |-> FALSE,
                      query |-> IF req.messages = <<>> THEN ""
                                ELSE req.messages[Len(req.messages)].content,
                      history |-> SubSeq(req.messages, 1, Len(req.messages) - 1)])
               /\ pc' = "ns_post"
               /\ UNCHANGED http
    /\ UNCHANGED <<req, pin, agent_history, pinFails, frames, full_response, error_occurred,
                   lines, chats>>
    /\ UNCHANGED regVars

\* The JSON bodies an agent answers with, as the fields they hold.
Bodies == SUBSET {"response", "content"}

\* "Extract response content from agent": response, else content, else the
\* stringified body. "X" and "Y" are the values of the two fields.
response_content(body) ==
    IF "response" \in body THEN "X"
    ELSE IF "content" \in body THEN "Y"
    ELSE "str(body)"

\* The answer to the POST arrives. A status other than 200 raises a 502, a
\* transport failure its own exception. On 200 the content is extracted, the
\* turn saved if asked for, and the response object built from completion,
\* which has no attribute usage: that AttributeError too ends in the except.
NonStreamPostDone(outcome, body, db) ==
    /\ pc = "ns_post"
    /\ pc' = "end"
    /\ IF outcome = "non200"
       THEN http' = NonStreamingError("502: agent api error") /\ UNCHANGED chats
       ELSE IF outcome = "exception"
       THEN http' = NonStreamingError("transport exception") /\ UNCHANGED chats
       ELSE IF req.save_to_db /\ req.chat_id # None
       THEN /\ chats' = Append(chats, [chat_id |-> req.chat_id,
                                       response |-> <<response_content(body)>>,
                                       streaming |-> FALSE,
                                       result |-> db])
            /\ http' = IF db = "ok"
                       THEN NonStreamingError("AttributeError: usage")
                       ELSE NonStreamingError("database exception")
       ELSE /\ http' = NonStreamingError("AttributeError: usage")
            /\ UNCHANGED chats
    /\ UNCHANGED <<req, pin, agent_history, pinFails, agent, frames, full_response,
                   error_occurred, lines, queries>>
    /\ UNCHANGED regVars

\* ------------------------------------------------ chat: specifications

\* A record as a successful check leaves it.
Online(cfg) == [cfg EXCEPT !.status = "online", !.last_health_check = "ok"]

\* The records of an id in the registries a request is served in: just
\* registered (offline), or online after a check.
RecordsOf(id) ==
    IF id = "gpt-3.5-turbo"
    THEN { AgentConfig("system", "openai", FALSE, FALSE),
           Online(AgentConfig("system", "openai", FALSE, TRUE)) }
    ELSE { DiscoveredConfig, Online(DiscoveredConfig) }

Reverse(q) == [i \in 1..Len(q) |-> q[Len(q) + 1 - i]]

\* The ids of S in the order discovery and a later registration insert them,
\* and in the opposite order.
OrdersOf(S) ==
    LET o == SelectSeq(<<"brd-agent", "prd-agent", "gpt-3.5-turbo">>,
                       LAMBDA x : x \in S)
    IN {o, Reverse(o)}

\* The registries a request is served in.
Registries ==
    UNION { { [agents |-> f, order |-> o] :
                f \in {g \in [S -> UNION {RecordsOf(id) : id \in Ids}] :
                          \A id \in S : g[id] \in RecordsOf(id)},
                o \in OrdersOf(S) } : S \in SUBSET Ids }

\* A request arrives at a server whose registry is reg.
ChatInit(reg, model, r, pinv, fails) ==
    /\ agents = reg.agents
    /\ order = reg.order
    /\ initialized = TRUE
    /\ healthTask = 1
    /\ tasks = <<NewTask>>
    /\ initCall = [c \in Callers |-> IdleCall]
    /\ checkCall = NoCheck
    /\ agentsDir = TRUE
    /\ dirs = {1, 2}
    /\ defaultModel = model
    /\ initNoop = FALSE
    /\ req = r
    /\ pin = pinv
    /\ agent_history = IF pinv = None THEN <<>> ELSE <<pinv>>
    /\ pinFails = fails
    /\ pc = "start"
    /\ agent = None
    /\ frames = <<>>
    /\ full_response = <<>>
    /\ error_occurred = FALSE
    /\ lines = <<>>
    /\ chats = <<>>
    /\ queries = <<>>
    /\ http = None

\* Routing: every registry, default model, named agent and pin; streaming or
\* not; one user message, persistence asked for.
InitRoute ==
    \E reg \in Registries, model \in DefaultModels,
       aid \in Ids \cup {None}, cid \in {None, ChatId}, st \in BOOLEAN,
       pinv \in Ids \cup {None}, fails \in BOOLEAN :
        /\ cid = None => (pinv = None /\ ~fails)
        /\ fails => pinv = None
        /\ ChatInit(reg, model,
                    [agent_id |-> aid, chat_id |-> cid, save_to_db |-> TRUE,
                     stream |-> st, messages |-> <<Msg("user", 1)>>],
                    pinv, fails)

\* The upstream answers without a line: routing is what these runs vary.
NextRoute ==
    \/ StreamStart
    \/ ResumeEarlyError
    \/ ResumeEarlyDone
    \/ ResumeTryError
    \/ ResumeTryDone
    \/ \E o \in {"ok", "http_error", "exception"} : Connect(o)
    \/ \E o \in {"end", "http_error", "exception"}, db \in {"ok", "raises"} :
          ReadEnd(o, db)
    \/ \E db \in {"ok", "raises"} : ResumeStreamError(db)
    \/ ResumeDbError
    \/ ResumeFinal
    \/ NonStreamStart
    \/ \E o \in {"200", "non200", "exception"}, body \in Bodies,
          db \in {"ok", "raises"} : NonStreamPostDone(o, body, db)

SpecRoute == InitRoute /\ [][NextRoute]_vars

\* Streaming: a registry of at most one agent, the request naming
\* "brd-agent" or no agent, with and without a user message, a chat id and
\* save_to_db.
InitStream ==
    \E reg \in {r \in Registries : Cardinality(DOMAIN r.agents) <= 1},
       aid \in {"brd-agent", None}, cid \in {None, ChatId}, save \in BOOLEAN,
       role \in {"user", "assistant"} :
        ChatInit(reg, "deepseek-r1:8b",
                 [agent_id |-> aid, chat_id |-> cid, save_to_db |-> save,
                  stream |-> TRUE, messages |-> <<Msg(role, 1)>>],
                 None, FALSE)

NextStream ==
    \/ StreamStart
    \/ ResumeEarlyError
    \/ ResumeEarlyDone
    \/ ResumeTryError
    \/ ResumeTryDone
    \/ \E o \in {"ok", "http_error", "exception"} : Connect(o)
    \/ \E line \in UpstreamLines : ReadLine(line)
    \/ ResumeLine
    \/ \E o \in {"end", "http_error", "exception"}, db \in {"ok", "raises"} :
          ReadEnd(o, db)
    \/ \E db \in {"ok", "raises"} : ResumeStreamError(db)
    \/ ResumeDbError
    \/ ResumeFinal

SpecStream == InitStream /\ [][NextStream]_vars

\* ------------------------------------------------------- chat: claims

\* The chunk the handler makes of a non-empty upstream line.
ChunkOf(line) ==
    IF startswith_data(line) THEN VerbatimFrame(line) ELSE ChunkFrame(line)

\* The chunks of the non-empty lines among ls, in their order.
Chunks(ls) ==
    LET ne == SelectSeq(ls, LAMBDA l : l # "")
    IN [i \in 1..Len(ne) |-> ChunkOf(ne[i])]

\* The places of the end marker among the frames emitted.
DonePlaces == {i \in 1..Len(frames) : frames[i] = DoneFrame}

\* C1: when generate_streaming_response has ended, on whatever path, the
\* frames emitted hold exactly one "data: [DONE]" frame and it is the last
\* frame.
C1_ExactlyOneDoneLast ==
    (req.stream /\ pc = "end") => DonePlaces = {Len(frames)} /\ frames # <<>>

\* The error chunks of a failed upstream call.
UpstreamErrorFrames ==
    { ErrorFrame("agent_api_error", "http_error"),
      ErrorFrame("internal_error", "unexpected_error") }

\* C2: when the upstream call fails after k non-empty lines, the client gets
\* exactly the k chunks of those lines in order, then one agent_api_error or
\* internal_error chunk, then the end marker, and create_chat is never called
\* for the request.
C2_UpstreamFailureNotPersisted ==
    /\ (pc \in {"y242", "y252"}) =>
          /\ chats = <<>>
          /\ \E e \in UpstreamErrorFrames : frames = Chunks(lines) \o <<e>>
    /\ error_occurred =>
          /\ chats = <<>>
          /\ pc \in {"y300", "end"}
          /\ \E e \in UpstreamErrorFrames :
                frames = Chunks(lines) \o <<e, DoneFrame>>

\* The upstream failed after two chunks of a request that asked for its turn
\* to be saved; the stream has ended and nothing was saved.
C2_Witness ==
    /\ pc = "end"
    /\ error_occurred
    /\ Len(Chunks(lines)) = 2
    /\ Len(frames) = 4
    /\ req.save_to_db
    /\ req.chat_id = ChatId
    /\ chats = <<>>

\* The request names an agent_id that get_agent does not find.
NamesUnknownAgent == req.agent_id # None /\ req.agent_id \notin DOMAIN agents

\* C3: a request naming an agent_id that is not in the registry is answered
\* with the agent-not-found error, whatever the registry and the pin: no agent
\* is resolved and no agent is called.
C3_UnknownAgentNotFound ==
    (NamesUnknownAgent /\ pc # "start") =>
        /\ agent = None
        /\ queries = <<>>
        /\ chats = <<>>
        /\ IF req.stream
           THEN /\ frames # <<>>
                /\ Head(frames) = ErrorFrame("agent_error", "agent_not_found")
                /\ Len(frames) <= 2
                /\ Len(frames) = 2 => frames[2] = DoneFrame
           ELSE http = NonStreamingError("404: agent not found")

\* A streaming request naming an unknown agent has ended, in a registry with
\* an online agent the default lookup would return and a chat pinned to a
\* registered agent.
C3_Witness ==
    /\ NamesUnknownAgent
    /\ req.stream
    /\ pc = "end"
    /\ get_default_agent(agents, order, defaultModel) # None
    /\ SomeOnline
    /\ req.chat_id = ChatId
    /\ pin \in DOMAIN agents

\* The request names a registered agent whose status is not online.
NamesOfflineAgent ==
    /\ req.agent_id \in DOMAIN agents
    /\ agents[req.agent_id].status # "online"

\* C4: a request naming a registered agent that is not online is not routed
\* to that agent: no call to the agent's /query endpoint is made for it, as
\* an answer of "agent unavailable" requires.
C4_OfflineAgentNotCalled ==
    (NamesOfflineAgent /\ pc # "start") => queries = <<>>

\* The database_error chunk.
DbErrorFrame == ErrorFrame("database_error", "db_error")

\* create_chat was called for the request and raised.
SaveFailed == chats # <<>> /\ chats[Len(chats)].result = "raises"

\* C11: when create_chat raises after a stream that ended without error, the
\* generator goes on: the client has every content chunk, then exactly one
\* database_error chunk, then the end marker, and nothing else.
C11_DbFailureReported ==
    SaveFailed =>
        /\ ~error_occurred
        /\ pc \in {"y284", "y300", "end"}
        /\ frames = Chunks(lines) \o <<DbErrorFrame>>
                    \o (IF pc = "y284" THEN <<>> ELSE <<DoneFrame>>)

\* A stream of two chunks ended, create_chat raised, and the generator has
\* ended after the database_error chunk and the marker.
C11_Witness ==
    /\ SaveFailed
    /\ pc = "end"
    /\ Len(Chunks(lines)) = 2
    /\ Len(frames) = 4

\* The buffer full_response after the lines ls: the wrapped lines, in order.
\* A line forwarded verbatim is not added to it.
Buffer(ls) == SelectSeq(ls, LAMBDA l : l # "" /\ ~startswith_data(l))

\* The upstream was called and its stream ended without error.
StreamCompleted ==
    /\ queries # <<>>
    /\ ~error_occurred
    /\ pc \in {"y284", "y300", "end"}

\* C12: a streaming request calls create_chat once if its upstream stream
\* ended without error and it has save_to_db and a chat_id, and never
\* otherwise; the call comes after the last content chunk and hands over the
\* whole buffer accumulated from the lines.
C12_SavedOnceWhenCompleted ==
    /\ Len(chats) <= 1
    /\ pc = "end" =>
          (Len(chats) = 1 <=>
              (StreamCompleted /\ req.save_to_db /\ req.chat_id # None))
    /\ chats # <<>> =>
          /\ StreamCompleted
          /\ chats[1].chat_id = req.chat_id
          /\ chats[1].response = Buffer(lines)
          /\ Len(frames) >= Len(Chunks(lines))
          /\ SubSeq(frames, 1, Len(Chunks(lines))) = Chunks(lines)

\* A stream of three chunks, two of them wrapped lines, ended and was saved.
C12_Witness ==
    /\ pc = "end"
    /\ Len(chats) = 1
    /\ chats[1].result = "ok"
    /\ Len(chats[1].response) = 2
    /\ Len(Chunks(lines)) = 3

\* The frames that are not made of an upstream line: error chunks and the
\* marker of the generator.
ControlFrames ==
    { ErrorFrame(t[1], t[2]) :
        t \in { <<"agent_error", "agent_not_found">>, <<"agent_error", "no_agents">>,
                <<"agent_error", "no_api_endpoint">>,
                <<"request_error", "no_user_message">>,
                <<"agent_api_error", "http_error">>,
                <<"internal_error", "unexpected_error">>,
                <<"database_error", "db_error">> } }
    \cup {DoneFrame}

\* C13: the content frames of a stream are the frames of the non-empty
\* upstream lines, one per line and in the order the lines were received;
\* whatever follows them is an error chunk or the marker.
C13_ChunksInUpstreamOrder ==
    LET n == Len(Chunks(lines)) IN
    queries # <<>> =>
        /\ Len(frames) >= n
        /\ SubSeq(frames, 1, n) = Chunks(lines)
        /\ \A i \in (n + 1)..Len(frames) : frames[i] \in ControlFrames
        /\ Len(frames) > n => pc \notin {"read", "y218", "y232"}

\* Three different non-empty lines were received, raw and in SSE shape, and
\* three frames emitted.
C13_Witness ==
    /\ Len(lines) = 3
    /\ Len(frames) = 3
    /\ lines[1] # lines[2]
    /\ lines[2] # lines[3]
    /\ lines[1] # lines[3]
    /\ pc = "read"

\* The request names no agent, and neither the pin nor get_default_agent
\* gives one.
NoAgentAvailable ==
    /\ req.agent_id = None
    /\ PinnedAgent(agents, req, pin, pinFails) = None
    /\ get_default_agent(agents, order, defaultModel) = None

\* The error chunks emitted so far.
ErrorFrames == SelectSeq(frames, LAMBDA f : f \in ControlFrames \ {DoneFrame})

\* C14: a streaming request whose agent cannot be resolved (the named agent
\* is not registered, or registered but not online, or no agent is
\* available) gets its error reported once and nothing else: no call to
\* /query, no content chunk, no create_chat.
C14_ResolutionErrorBeforeStreaming ==
    (req.stream /\ pc # "start"
        /\ (NamesUnknownAgent \/ NamesOfflineAgent \/ NoAgentAvailable)) =>
        /\ queries = <<>>
        /\ chats = <<>>
        /\ agent = None
        /\ Len(ErrorFrames) = 1
        /\ frames \in {ErrorFrames, ErrorFrames \o <<DoneFrame>>}

\* The request names no agent and its chat is pinned to a registered agent
\* that is not online.
PinnedToOfflineAgent ==
    /\ req.agent_id = None
    /\ PinnedAgent(agents, req, pin, pinFails) # None
    /\ agents[pin].status # "online"

\* C15: a request without agent_id whose chat is pinned to a registered agent
\* that is not online is not routed to the pinned agent: in the streaming and
\* in the non-streaming path alike it resolves to what get_default_agent
\* returns.
C15_OfflinePinFallsThrough ==
    (PinnedToOfflineAgent /\ pc # "start") =>
        agent = get_default_agent(agents, order, defaultModel)

\* The request names no agent and the pin gives none: the request has no
\* chat_id, the lookup fails, the chat has no pin, or the pinned id is no
\* longer registered.
NoPinnedAgent ==
    /\ req.agent_id = None
    /\ req.chat_id = None \/ pinFails \/ pin = None \/ pin \notin DOMAIN agents

\* C16: a request without agent_id for which the pin gives no agent is
\* routed to what get_default_agent returns; when that is nothing the answer
\* is the no-agents error, not the agent-not-found error, and no agent is
\* called.
C16_DefaultOrNoAgents ==
    LET d == get_default_agent(agents, order, defaultModel) IN
    (NoPinnedAgent /\ pc # "start") =>
        /\ agent = d
        /\ d = None =>
              /\ queries = <<>>
              /\ IF req.stream
                 THEN /\ ErrorFrames = <<ErrorFrame("agent_error", "no_agents")>>
                      /\ Head(frames) = ErrorFrame("agent_error", "no_agents")
                 ELSE http = NonStreamingError("503: no agents available")

\* A streaming request of a chat pinned to an id that is no longer
\* registered has ended with the no-agents error, in a registry that is not
\* empty.
C16_Witness ==
    /\ req.agent_id = None
    /\ req.chat_id = ChatId
    /\ pin # None
    /\ pin \notin DOMAIN agents
    /\ agents # <<>>
    /\ get_default_agent(agents, order, defaultModel) = None
    /\ req.stream
    /\ pc = "end"
    /\ frames = <<ErrorFrame("agent_error", "no_agents"), DoneFrame>>

\* The request names a registered agent that is online.
NamesOnlineAgent ==
    /\ req.agent_id \in DOMAIN agents
    /\ agents[req.agent_id].status = "online"

\* C17: a request naming a registered online agent is routed to exactly that
\* agent, whatever get_default_agent would return and whatever the pin of
\* its chat, a failing pin lookup included.
C17_NamedAgentWins ==
    (NamesOnlineAgent /\ pc # "start") =>
        /\ agent = req.agent_id
        /\ \A i \in 1..Len(queries) : queries[i].agent = req.agent_id
        /\ agents[req.agent_id].base_url => Len(queries) = 1
        /\ ErrorFrame("agent_error", "agent_not_found") \notin Range(frames)
        /\ ErrorFrame("agent_error", "no_agents") \notin Range(frames)

\* A streaming request naming an online agent was sent to it, while its chat is pinned
\* to another registered agent and get_default_agent returns an agent other
\* than the named one.
C17_Witness ==
    /\ NamesOnlineAgent
    /\ req.chat_id = ChatId
    /\ pin \in DOMAIN agents
    /\ pin # req.agent_id
    /\ get_default_agent(agents, order, defaultModel) \notin {None, req.agent_id}
    /\ Len(queries) = 1
    /\ queries[1].agent = req.agent_id
    /\ req.stream
    /\ pc = "end"

\* C18: the status of a registered id changes only in a step of a health
\* check (check_agent_status called directly or by the loop): a step that
\* keeps the id registered and is no such step, register_agent on the id
\* included, leaves its status as it was.
C18_StatusOnlyByProbe ==
    [][\A id \in DOMAIN agents \cap DOMAIN agents' :
          agents'[id].status # agents[id].status => ProbeStep]_vars

\* The loop task _health_check_task names has ended.
LoopTerminated == healthTask # 0 /\ tasks[healthTask].pc = "cancelled"

\* C19: cleanup ends the health-check loop initialize started: when it
\* returns the task is cancelled, a cancelled task never sleeps, probes or
\* sets a status again, and a cleanup with no task (before initialize) or
\* with a task already cancelled changes nothing.
C19_CleanupStopsLoop ==
    /\ [][(Cleanup /\ healthTask # 0) => LoopTerminated']_vars
    /\ [][\A t \in DOMAIN tasks :
            tasks[t].pc = "cancelled" =>
                /\ tasks'[t] = tasks[t]
                /\ ~HealthTick(t)
                /\ \A o \in ProbeOutcomes : ~HealthProbeDone(t, o)]_vars
    /\ [][(Cleanup /\ (healthTask = 0 \/ LoopTerminated)) => UNCHANGED vars]_vars

\* The loop initialize started was cancelled by cleanup, after a check had
\* set an agent online.
C19_Witness ==
    /\ LoopTerminated
    /\ initialized
    /\ SomeOnline

\* The key test check_agent_status makes for a system agent.
KeyCheckPasses(rec) == ~(rec.provider \in {"openai", "anthropic"} /\ ~rec.api_key)

\* C20: check_agent_status on a registered agent returns the status it has
\* just stored and sets last_health_check, the status being online exactly
\* when the probe succeeded: an agent with an endpoint is probed, and for a
\* system agent the key test stands for the probe; on an id that is not
\* registered it returns offline and leaves the registry as it was.
C20_CheckReturnsStoredStatus ==
    /\ [][\A o \in ProbeOutcomes \ {"raise"} :
            CheckStatusDone(o) =>
                /\ checkCall'.ret = (IF o = "200" THEN "online" ELSE "offline")
                /\ ~checkCall.detached =>
                      /\ checkCall.id \in DOMAIN agents'
                      /\ agents'[checkCall.id].status = checkCall'.ret
                      /\ agents'[checkCall.id].last_health_check # "never"]_vars
    /\ [][\A id \in Ids :
            CheckStatusCall(id) =>
                IF id \notin DOMAIN agents
                THEN /\ checkCall'.ret = "offline"
                     /\ agents' = agents
                     /\ order' = order
                ELSE IF agents[id].base_url
                THEN checkCall'.pc = "probe"
                ELSE /\ checkCall'.pc = "idle"
                     /\ id \in DOMAIN agents'
                     /\ agents'[id].status = checkCall'.ret
                     /\ agents'[id].last_health_check # "never"
                     /\ agents[id].type = "system" =>
                           (checkCall'.ret = "online" <=> KeyCheckPasses(agents[id]))]_vars

\* ------------------------------------------------------------ list_agents

\* AgentStatus.
Statuses == {"online", "offline", "busy", "error"}

\* The records an id may be registered with when the code registering it has
\* assigned the status attribute: register_agent stores the object as given.
ListRecordsOf(id) ==
    LET base == IF id = "gpt-3.5-turbo"
                THEN { AgentConfig("system", "openai", FALSE, FALSE),
                       AgentConfig("system", "openai", FALSE, TRUE) }
                ELSE { DiscoveredConfig }
    IN { [c EXCEPT !.status = st] : c \in base, st \in Statuses }

\* The registries list_agents is called on.
ListRegistries ==
    UNION { { [agents |-> f, order |-> o] :
                f \in {g \in [S -> UNION {ListRecordsOf(id) : id \in Ids}] :
                          \A id \in S : g[id] \in ListRecordsOf(id)},
                o \in OrdersOf(S) } : S \in SUBSET Ids }

InitList ==
    /\ \E reg \in ListRegistries : agents = reg.agents /\ order = reg.order
    /\ initialized = TRUE
    /\ healthTask = 1
    /\ tasks = <<NewTask>>
    /\ initCall = [c \in Callers |-> IdleCall]
    /\ checkCall = NoCheck
    /\ agentsDir = TRUE
    /\ dirs = {1, 2}
    /\ defaultModel = "deepseek-r1:8b"
    /\ initNoop = FALSE
    /\ NoChat

\* GET /agents without capability: the registry is initialized, so
\* list_agents(include_offline) is called and its records are the response.
ListAgents(include_offline) ==
    /\ pc = "idle"
    /\ initialized
    /\ pc' = "listed"
    /\ http' = [status |-> 200, include_offline |-> include_offline,
                ids |-> list_agents(agents, include_offline)]
    /\ UNCHANGED <<req, pin, agent_history, pinFails, agent, frames, full_response,
                   error_occurred, lines, chats, queries>>
    /\ UNCHANGED regVars

NextList == \E include_offline \in BOOLEAN : ListAgents(include_offline)

SpecList == InitList /\ [][NextList]_vars

\* C21: list_agents(include_offline=True) returns exactly the registered
\* records, and list_agents(include_offline=False) exactly those that are
\* online, busy or in error: never an offline one.
C21_ListAgentsFilter ==
    pc = "listed" =>
        IF http.include_offline
        THEN http.ids = DOMAIN agents
        ELSE /\ http.ids \subseteq DOMAIN agents
             /\ \A id \in DOMAIN agents :
                   id \in http.ids <=> agents[id].status \in {"online", "busy", "error"}

\* list_agents(include_offline=False) has returned a busy and an error record
\* and left out an offline one.
C21_Witness ==
    /\ pc = "listed"
    /\ ~http.include_offline
    /\ \E a, b \in http.ids : agents[a].status = "busy" /\ agents[b].status = "error"
    /\ \E c \in DOMAIN agents : agents[c].status = "offline" /\ c \notin http.ids

\* ------------------------------------------------- select_agent_for_chat

\* The rows select_agent_for_chat may find for the chat: none, or the row an
\* earlier selection made.
Sessions ==
    { [pin |-> None, agent_history |-> <<>>] }
    \cup { [pin |-> id, agent_history |-> <<id>>] : id \in Ids }

InitSelect ==
    /\ \E reg \in ListRegistries : agents = reg.agents /\ order = reg.order
    /\ initialized = TRUE
    /\ healthTask = 1
    /\ tasks = <<NewTask>>
    /\ initCall = [c \in Callers |-> IdleCall]
    /\ checkCall = NoCheck
    /\ agentsDir = TRUE
    /\ dirs = {1, 2}
    /\ defaultModel = "deepseek-r1:8b"
    /\ initNoop = FALSE
    /\ req = [agent_id |-> None, chat_id |-> ChatId, save_to_db |-> TRUE,
              stream |-> FALSE, messages |-> <<>>]
    /\ \E row \in Sessions : pin = row.pin /\ agent_history = row.agent_history
    /\ pinFails = FALSE
    /\ pc = "idle"
    /\ agent = None
    /\ frames = <<>>
    /\ full_response = <<>>
    /\ error_occurred = FALSE
    /\ lines = <<>>
    /\ chats = <<>>
    /\ queries = <<>>
    /\ http = [status |-> 0, detail |-> None]

\* agent_history of the row after db.commit() for a row that existed: the
\* list was loaded from a plain Column(JSON) and appended to in place, never
\* assigned, so the ORM sees no change of the attribute and the UPDATE
\* carries active_agent_id only.
CommittedHistory(history, agent_id) == history

\* POST /agents/{agent_id}/select for the chat: 404 for an agent get_agent
\* does not find, 400 for one that is not online; else the row of the chat is
\* made or updated and committed (500 and no write if the database raises).
SelectAgent(agent_id, db) ==
    /\ pc = "idle"
    /\ IF get_agent(agents, agent_id) = None
       THEN /\ http' = [status |-> 404, detail |-> "not found"]
            /\ UNCHANGED <<pin, agent_history>>
       ELSE IF agents[agent_id].status # "online"
       THEN /\ http' = [status |-> 400, detail |-> "not available"]
            /\ UNCHANGED <<pin, agent_history>>
       ELSE IF db = "raises"
       THEN /\ http' = [status |-> 500, detail |-> "database exception"]
            /\ UNCHANGED <<pin, agent_history>>
       ELSE /\ http' = [status |-> 200, detail |-> agent_id]
            /\ pin' = agent_id
            /\ agent_history' = IF pin = None THEN <<agent_id>>
                                ELSE CommittedHistory(agent_history, agent_id)
    /\ UNCHANGED <<req, pinFails, pc, agent, frames, full_response,
                   error_occurred, lines, chats, queries>>
    /\ UNCHANGED regVars

NextSelect == \E agent_id \in Ids, db \in {"ok", "raises"} : SelectAgent(agent_id, db)

SpecSelect == InitSelect /\ [][NextSelect]_vars

\* How often x is in the sequence s.
Count(s, x) == Cardinality({i \in DOMAIN s : s[i] = x})

\* C22: a selection that succeeds leaves the pin on the selected agent and
\* the history holding it exactly once, the earlier entries in their order;
\* a selection of an agent that is missing or not online fails and leaves the
\* active agent and the history as they were.
C22_SelectUpdatesPin ==
    [][\A id \in Ids, db \in {"ok", "raises"} :
          SelectAgent(id, db) =>
              IF id \in DOMAIN agents /\ agents[id].status = "online"
              THEN http'.status = 200 =>
                      /\ pin' = id
                      /\ Count(agent_history', id) = 1
                      /\ Without(agent_history', id) = Without(agent_history, id)
              ELSE /\ http'.status \in {404, 400}
                   /\ pin' = pin
                   /\ agent_history' = agent_history]_vars

\* ------------------------------------------- chat: non-streaming claims

\* C23: a non-streaming request whose agent answers 200 completes
\* successfully (status 200, the database not failing), and the text saved is
\* the 'response' field, else the 'content' field, else the stringified body.
C23_NonStreaming200Succeeds ==
    [][\A body \in Bodies :
          NonStreamPostDone("200", body, "ok") =>
              /\ http'.status = 200
              /\ Len(chats') > Len(chats) =>
                    chats'[Len(chats')].response = <<response_content(body)>>]_vars

\* C24: in the non-streaming path a named agent that is not registered is
\* answered with 404, no agent available with 503 and a failed agent call
\* with 502.
C24_NonStreamingErrorKinds ==
    [][/\ NonStreamStart =>
            LET res == ResolveNonStreaming(agents, order, defaultModel, req,
                                           pin, pinFails) IN
            /\ (req.agent_id # None /\ res.agent = None) => http'.status = 404
            /\ (req.agent_id = None /\ res.agent = None) => http'.status = 503
       /\ \A body \in Bodies, db \in {"ok", "raises"} :
            NonStreamPostDone("non200", body, db) => http'.status = 502]_vars

\* ------------------------------------------- chat: client disconnect

\* The yields of generate_streaming_response inside its outer try, and the
\* awaits of the upstream call.
InTry == {"y166", "y167", "y180", "y181", "y218", "y232", "y242", "y252",
          "y284", "connect", "read"}

\* The yields before the try, and the yield of the finally.
OutsideTry == {"y122", "y123", "y149", "y150", "y300"}

\* The generator after a disconnect: suspended at the yield of the finally
\* with the exception pending, or finished.
Disconnected == {"y300x", "closed"}

\* A disconnect handled as the natural end of the upstream stream.
Disconnect_AsStreamEnd(kind) ==
    /\ pc \in {"y218", "y232"}
    /\ SaveThenFinish(error_occurred, "ok")
    /\ UNCHANGED <<req, pin, agent_history, pinFails, agent, full_response, error_occurred,
                   lines, queries, http>>
    /\ UNCHANGED regVars

\* The client disconnects: the generator is closed at a yield (GeneratorExit)
\* or cancelled at a yield or an await (CancelledError). Neither is an
\* Exception, so no except clause of the generator catches it and the save is
\* passed over. Inside the try the finally runs and yields the marker: a
\* close drops it (RuntimeError: async generator ignored GeneratorExit), a
\* cancel hands it to the thrower.
Disconnect(kind) ==
    /\ \/ pc \in (InTry \cup OutsideTry) \ {"connect", "read"}
       \/ kind = "cancel" /\ pc \in {"connect", "read"}
    /\ IF pc \in InTry
       THEN IF kind = "close"
            THEN pc' = "y300x" /\ UNCHANGED frames
            ELSE Yield(DoneFrame, "y300x")
       ELSE pc' = "closed" /\ UNCHANGED frames
    /\ UNCHANGED <<req, pin, agent_history, pinFails, agent, full_response, error_occurred,
                   lines, chats, queries, http>>
    /\ UNCHANGED regVars

\* The generator is resumed or finalized at the yield of the finally it
\* reached through an exception: the exception is raised again and the
\* generator is finished.
ResumeAfterThrow ==
    /\ pc = "y300x"
    /\ pc' = "closed"
    /\ UNCHANGED <<req, pin, agent_history, pinFails, agent, frames, full_response,
                   error_occurred, lines, chats, queries, http>>
    /\ UNCHANGED regVars

NextDisconnect ==
    \/ StreamStart
    \/ ResumeEarlyError
    \/ ResumeEarlyDone
    \/ ResumeTryError
    \/ ResumeTryDone
    \/ \E o \in {"ok", "http_error", "exception"} : Connect(o)
    \/ \E line \in UpstreamLines : ReadLine(line)
    \/ ResumeLine
    \/ \E o \in {"end", "http_error", "exception"}, db \in {"ok", "raises"} :
          ReadEnd(o, db)
    \/ \E db \in {"ok", "raises"} : ResumeStreamError(db)
    \/ ResumeDbError
    \/ ResumeFinal
    \/ \E kind \in {"close", "cancel"} : Disconnect(kind)
    \/ ResumeAfterThrow

SpecDisconnect == InitStream /\ [][NextDisconnect]_vars

\* C25: a disconnect at a yield between upstream lines leaves the generator
\* disconnected, and no step into or out of a disconnected generator reads an
\* upstream line or calls create_chat.
C25_DisconnectSkipsSave ==
    [][/\ (\E kind \in {"close", "cancel"} : Disconnect(kind)) /\ pc \in {"y218", "y232"}
            => pc' \in Disconnected
       /\ (pc \in Disconnected \/ pc' \in Disconnected)
            => /\ pc' \in Disconnected
               /\ lines' = lines
               /\ chats' = chats]_vars

\* A request that would have been saved was disconnected between two
\* upstream lines: a line was wrapped, and create_chat was not called.
C25_Witness ==
    /\ pc = "closed"
    /\ ShouldSave(req, error_occurred)
    /\ Len(lines) \in 1..(MaxLines - 1)
    /\ Len(frames) > 0 /\ frames[Len(frames)] = ChunkFrame(lines[Len(lines)])
    /\ chats = <<>>

\* ------------------------------------------- overlapping initialize()

\* initialize() is called by the startup hook and by the endpoints that find
\* _initialized false; the calls interleave at the awaits of discovery.
NextOverlap ==
    \/ \E c \in Callers : InitializeCall(c)
    \/ \E c \in Callers, o \in ProbeOutcomes : InitializeProbeDone(c, o)
    \/ \E t \in DOMAIN tasks : HealthTick(t)
    \/ \E t \in DOMAIN tasks, o \in ProbeOutcomes : HealthProbeDone(t, o)
    \/ Cleanup

SpecOverlap == Init /\ [][NextOverlap]_vars

\* The loop tasks that were created and not cancelled.
LiveTasks == {t \in DOMAIN tasks : tasks[t].pc # "cancelled"}

\* C26: whatever the interleaving of initialize() calls, at most one
\* health-check task exists, a task that exists is the one _health_check_task
\* names, which cleanup() cancels, and a discovery pass registers no agent
\* that is registered already.
C26_OverlappingInitialize ==
    [][/\ Cardinality(LiveTasks') <= 1
       /\ \A t \in LiveTasks' : t = healthTask'
       /\ \A c \in Callers, o \in ProbeOutcomes :
            (InitializeProbeDone(c, o) /\ _check_agent_health(o))
                => known_agents[initCall[c].idx] \notin DOMAIN agents]_vars

\* --------------------------------------------- chat: streaming claims II

\* C27: in a stream whose request was sent to the agent, no frame is emitted
\* after a "data: [DONE]" frame, whatever lines the agent sends, its own
\* "data: [DONE]" line included.
C27_NoFrameAfterDone ==
    queries # <<>> => \A i \in DonePlaces : i = Len(frames)

\* The synthesized chunks among the frames emitted.
WrappedFrames == SelectSeq(frames, LAMBDA f : Len(f) = 2)

\* C28: the full-text buffer is the concatenation, in arrival order, of the
\* non-empty upstream lines that do not start with "data: " (the line just
\* yielded is added when the generator is resumed), so at the end of the
\* stream it holds exactly those lines; forwarded and empty lines add
\* nothing, and the content of each synthesized chunk is its raw line.
C28_BufferIsWrappedLines ==
    /\ pc # "y232" => full_response = Buffer(lines)
    /\ pc = "y232" => /\ lines # <<>>
                      /\ full_response = Buffer(SubSeq(lines, 1, Len(lines) - 1))
    /\ WrappedFrames = [i \in 1..Len(Buffer(lines)) |-> ChunkFrame(Buffer(lines)[i])]

\* A stream of a raw line, a forwarded line and a different raw line has
\* ended: the buffer holds the two raw lines in the order they came, and the
\* two synthesized chunks carry them.
C28_Witness ==
    /\ pc = "end"
    /\ ~error_occurred
    /\ lines = <<"b", "data: {tok}", "a">>
    /\ full_response = <<"b", "a">>
    /\ frames = <<ChunkFrame("b"), VerbatimFrame("data: {tok}"), ChunkFrame("a"),
                  DoneFrame>>

\* ------------------------------------------------- chat: the payload

\* The roles of a message: Literal["system", "user", "assistant", "function"].
Roles == {"system", "user", "assistant", "function"}

\* The non-empty message lists of the model: every list of roles as long as
\* a prefix of Contents.
MessageLists ==
    UNION { { [i \in 1..n |-> Msg(roles[i], i)] : roles \in [1..n -> Roles] } :
            n \in DOMAIN Contents }

\* A streaming request with any message list arrives at a server whose one
\* agent is online.
InitPayload ==
    \E messages \in MessageLists :
        ChatInit([agents |-> [id \in {"brd-agent"} |-> Online(DiscoveredConfig)],
                  order |-> <<"brd-agent">>],
                 "deepseek-r1:8b",
                 [agent_id |-> None, chat_id |-> ChatId, save_to_db |-> TRUE,
                  stream |-> TRUE, messages |-> messages],
                 None, FALSE)

\* The upstream answers without a line: the payload is what these runs vary.
NextPayload ==
    \/ StreamStart
    \/ ResumeTryError
    \/ ResumeTryDone
    \/ \E o \in {"ok", "http_error", "exception"} : Connect(o)
    \/ \E o \in {"end", "http_error", "exception"}, db \in {"ok", "raises"} :
          ReadEnd(o, db)
    \/ \E db \in {"ok", "raises"} : ResumeStreamError(db)
    \/ ResumeDbError
    \/ ResumeFinal

SpecPayload == InitPayload /\ [][NextPayload]_vars

\* The place of the latest user message in a list that has one.
LatestUser(messages) ==
    CHOOSE k \in DOMAIN messages :
        /\ messages[k].role = "user"
        /\ \A j \in DOMAIN messages : messages[j].role = "user" => j <= k

\* C29: the payload of a streaming request with a user message has the
\* content of the latest user message as query and exactly the messages
\* before that message, in order, as history.
C29_PayloadQueryAndHistory ==
    queries # <<>> =>
        LET k == LatestUser(req.messages) IN
        /\ queries[1].query = req.messages[k].content
        /\ queries[1].history = SubSeq(req.messages, 1, k - 1)

\* ------------------------------------- unregister during a health probe

\* A server after startup: any registry, the loop task asleep, no request.
InitUnregister ==
    /\ \E reg \in Registries : agents = reg.agents /\ order = reg.order
    /\ initialized = TRUE
    /\ healthTask = 1
    /\ tasks = <<NewTask>>
    /\ initCall = [c \in Callers |-> IdleCall]
    /\ checkCall = NoCheck
    /\ agentsDir = TRUE
    /\ dirs = {1, 2}
    /\ defaultModel = "deepseek-r1:8b"
    /\ initNoop = FALSE
    /\ NoChat

\* The loop task and the status endpoint check agents while agents are
\* unregistered.
NextUnregister ==
    \/ \E id \in Ids : UnregisterAgent(id)
    \/ \E t \in DOMAIN tasks : HealthTick(t)
    \/ \E t \in DOMAIN tasks, o \in ProbeOutcomes : HealthProbeDone(t, o)
    \/ \E id \in Ids : CheckStatusCall(id)
    \/ \E o \in ProbeOutcomes : CheckStatusDone(o)

SpecUnregister == InitUnregister /\ [][NextUnregister]_vars

\* C30: when the probe of an agent that was unregistered meanwhile ends, in
\* the loop or in a direct check_agent_status, the agent is not inserted
\* again and the completion changes no record (the registry is then changed
\* only by the checks the tick goes on with), and the loop task goes on; an
\* id of the snapshot that is no longer registered when its turn comes is
\* passed over, no error raised and no probe started for it.
C30_UnregisterDuringProbe ==
    [][/\ \A t \in DOMAIN tasks, o \in ProbeOutcomes :
            (HealthProbeDone(t, o) /\ Head(tasks[t].todo) \notin DOMAIN agents) =>
                /\ Head(tasks[t].todo) \notin DOMAIN agents'
                /\ agents' = IF o = "raise" THEN agents
                             ELSE RunChecks(agents, Tail(tasks[t].todo)).agents
                /\ tasks'[t].pc \in {"sleep", "probe"}
       /\ \A o \in ProbeOutcomes :
            (CheckStatusDone(o) /\ checkCall.id \notin DOMAIN agents) =>
                /\ agents' = agents
                /\ tasks' = tasks
       /\ \A t \in DOMAIN tasks, o \in ProbeOutcomes \ {"raise"} :
            HealthProbeDone(t, o) =>
                /\ DOMAIN agents' = DOMAIN agents
                /\ tasks'[t].raised = tasks[t].raised
                /\ tasks'[t].pc = "probe" => Head(tasks'[t].todo) \in DOMAIN agents']_vars

\* The loop is probing an agent that was unregistered during the probe, the
\* next id of its snapshot was unregistered too, and another agent is still
\* registered.
C30_Witness ==
    \E t \in DOMAIN tasks :
        /\ tasks[t].pc = "probe"
        /\ Len(tasks[t].todo) >= 2
        /\ Head(tasks[t].todo) \notin DOMAIN agents
        /\ tasks[t].todo[2] \notin DOMAIN agents
        /\ agents # << >>

====
